---------------------------- MODULE Spec2Model ----------------------------
(***************************************************************************)
(* A model of convert.py, the interactive HEIC/HEIF to PNG/JPEG converter. *)
(*                                                                         *)
(*   Spec          the interactive shell: main, choose_format,             *)
(*                 convert_files and the summary, over a file system       *)
(*   SpecConfig    load_config and save_config over config.json            *)
(*   SpecSanitize  sanitize_image over small images                        *)
(***************************************************************************)
EXTENDS Integers, Sequences, FiniteSets, TLC

VARIABLES
    pc,          \* position of the control thread
    screen,      \* the last notice printed to the terminal
    configFile,  \* the content of config.json
    cfg,         \* the configuration dict held by choose_format and main
    saveArg,     \* the dict handed to the last save_config call
    saveOutcome, \* how the last write_text ended: "none", "ok", "denied", "partial"
    readOk,      \* whether the last read_text succeeded
    raised,      \* where an exception escaped to the top level ("none" if nowhere)
    inState,     \* the input directory: "present", "absent" or "blocked"
    outState,    \* the output directory: "present", "absent" or "blocked"
    inDir,       \* the entries of the input directory, each with what decoding it does
    outDir,      \* the byte size of each file of the output directory (NoFile if none)
    remaining,   \* the files the conversion loop has still to take
    cur,         \* the file the conversion loop is at
    orig_size,   \* fp.stat().st_size of that file
    handles,     \* the image handles that are open
    stats,       \* the records collected by convert_files
    errors,      \* the files an error line was written for
    reported,    \* whether print_summary ran in this round
    choice,      \* the menu choice last typed in choose_format, stripped and lowered
    img,         \* the image handed to sanitize_image
    result       \* the image sanitize_image returned

cfgVars == <<configFile, cfg, saveArg, saveOutcome, readOk>>
dirVars == <<inState, outState, inDir, outDir>>
loopVars == <<remaining, cur, orig_size, handles, stats, errors>>
shellVars == <<screen, reported, choice>>
imgVars == <<img, result>>
vars == <<pc, raised, cfgVars, dirVars, loopVars, shellVars, imgVars>>

-----------------------------------------------------------------------------
(* Python values that occur in the configuration dict.  One record shape   *)
(* for all of them, so that any two values can be compared.                *)

IntV(n) == [t |-> "int", n |-> n, s |-> ""]
StrV(s) == [t |-> "str", n |-> 0, s |-> s]
NullV == [t |-> "null", n |-> 0, s |-> ""]

DefaultQuality == 95
MinQuality == 1
MaxQuality == 100

Digits == <<"0", "1", "2", "3", "4", "5", "6", "7", "8", "9">>

DigitVal(c) == (CHOOSE i \in 1..10 : Digits[i] = c) - 1

IsDigit(c) == \E i \in 1..10 : Digits[i] = c

RECURSIVE NatText(_)
NatText(n) ==
    IF n < 10 THEN <<Digits[n + 1]>>
    ELSE NatText(n \div 10) \o <<Digits[(n % 10) + 1]>>

\* The decimal text of an integer, as json.dumps and str write it.
IntText(n) == IF n < 0 THEN <<"-">> \o NatText(0 - n) ELSE NatText(n)

RECURSIVE DigitsValue(_)
DigitsValue(ds) ==
    IF Len(ds) = 0 THEN 0
    ELSE 10 * DigitsValue(SubSeq(ds, 1, Len(ds) - 1)) + DigitVal(ds[Len(ds)])

AllDigits(ds) == Len(ds) > 0 /\ \A i \in 1..Len(ds) : IsDigit(ds[i])

\* int(text): an optional sign and at least one digit, anything else raises
\* ValueError.
PyInt(text) ==
    IF Len(text) > 0 /\ text[1] \in {"-", "+"}
    THEN LET ds == SubSeq(text, 2, Len(text))
         IN  IF AllDigits(ds)
             THEN [raised |-> FALSE,
                   value |-> IF text[1] = "-" THEN 0 - DigitsValue(ds) ELSE DigitsValue(ds)]
             ELSE [raised |-> TRUE, value |-> 0]
    ELSE IF AllDigits(text)
         THEN [raised |-> FALSE, value |-> DigitsValue(text)]
         ELSE [raised |-> TRUE, value |-> 0]

-----------------------------------------------------------------------------
(* config.json.  The file is absent, holds text that is no JSON            *)
(* ("garbage"), holds a JSON array, or holds a JSON object: a sequence of   *)
(* members <<key, token>>, a token being the characters of the value.      *)

Keys == {"output_format", "jpeg_quality"}
KeyOrder == <<"output_format", "jpeg_quality", "theme">>

NullToken == <<"n", "u", "l", "l">>

AbsentFile == [kind |-> "absent", members |-> <<>>]
GarbageFile == [kind |-> "garbage", members |-> <<>>]
ArrayFile == [kind |-> "array", members |-> <<>>]
ObjectFile(ms) == [kind |-> "object", members |-> ms]

\* json.dumps of one value.
EncodeValue(v) ==
    CASE v.t = "int" -> IntText(v.n)
      [] v.t = "str" -> <<"\"", v.s, "\"">>
      [] OTHER -> NullToken

\* json.loads of one value token.
DecodeValue(tok) ==
    IF tok = NullToken THEN NullV
    ELSE IF tok[1] = "\"" THEN StrV(tok[2])
    ELSE IF tok[1] = "-" THEN IntV(0 - DigitsValue(SubSeq(tok, 2, Len(tok))))
    ELSE IntV(DigitsValue(tok))

\* json.dumps(cfg, indent=2, ensure_ascii=False): the members in the dict's
\* order.
json_dumps(d) ==
    LET ks == SelectSeq(KeyOrder, LAMBDA k : k \in DOMAIN d)
    IN  [i \in 1..Len(ks) |-> <<ks[i], EncodeValue(d[ks[i]])>>]

\* json.loads(text): raises on text that is no JSON; an array parses to a
\* list, an object to a dict in which a repeated key keeps its last value.
json_loads(file) ==
    IF file.kind = "garbage" THEN [raised |-> TRUE, isDict |-> FALSE, value |-> <<>>]
    ELSE IF file.kind = "array" THEN [raised |-> FALSE, isDict |-> FALSE, value |-> <<>>]
    ELSE LET ms == file.members
             ks == {ms[i][1] : i \in 1..Len(ms)}
             last(k) == CHOOSE i \in 1..Len(ms) :
                           /\ ms[i][1] = k
                           /\ \A j \in 1..Len(ms) : ms[j][1] = k => j <= i
         IN  [raised |-> FALSE, isDict |-> TRUE,
              value |-> [k \in ks |-> DecodeValue(ms[last(k)][2])]]

\* {**a, **b}
Merge(a, b) ==
    [k \in (DOMAIN a) \cup (DOMAIN b) |-> IF k \in DOMAIN b THEN b[k] ELSE a[k]]

default == [output_format |-> StrV("png"), jpeg_quality |-> IntV(DefaultQuality)]

\* A mutant of load_config: the parsed dict is returned without the defaults
\* merged under it.
load_config_nomerge(file, rdOk) ==
    IF file.kind # "absent" /\ rdOk
    THEN LET p == json_loads(file)
         IN  IF p.raised \/ ~p.isDict
             THEN [raised |-> FALSE, value |-> default]
             ELSE [raised |-> FALSE, value |-> p.value]
    ELSE [raised |-> FALSE, value |-> default]

\* A mutant of load_config: no except around the read and the parse.
load_config_noexcept(file, rdOk) ==
    IF file.kind # "absent"
    THEN IF ~rdOk
         THEN [raised |-> TRUE, value |-> default]
         ELSE LET p == json_loads(file)
              IN  IF p.raised \/ ~p.isDict
                  THEN [raised |-> TRUE, value |-> default]
                  ELSE [raised |-> FALSE, value |-> Merge(default, p.value)]
    ELSE [raised |-> FALSE, value |-> default]

\* load_config().  rdOk: whether read_text succeeds.  Every exception of the
\* read, of the parse and of the merge (a parsed value that is no mapping)
\* is swallowed by the bare except.
load_config(file, rdOk) ==
    IF file.kind # "absent"
    THEN IF ~rdOk
         THEN [raised |-> FALSE, value |-> default]
         ELSE LET p == json_loads(file)
              IN  IF p.raised \/ ~p.isDict
                  THEN [raised |-> FALSE, value |-> default]
                  ELSE [raised |-> FALSE, value |-> Merge(default, p.value)]
    ELSE [raised |-> FALSE, value |-> default]

WriteOutcomes == {"ok", "denied", "partial"}

\* A mutant of save_config: only the format is written.
save_config_formatonly(c, file, outcome) ==
    CASE outcome = "ok" ->
            [raised |-> FALSE,
             file |-> ObjectFile(json_dumps([k \in {"output_format"} |-> c[k]]))]
      [] outcome = "partial" -> [raised |-> FALSE, file |-> GarbageFile]
      [] OTHER -> [raised |-> FALSE, file |-> file]

\* save_config(cfg).  The write succeeds, is refused before the file is
\* touched, or fails after the file was truncated; the bare except swallows
\* either failure.
save_config(c, file, outcome) ==
    CASE outcome = "ok" -> [raised |-> FALSE, file |-> ObjectFile(json_dumps(c))]
      [] outcome = "partial" -> [raised |-> FALSE, file |-> GarbageFile]
      [] OTHER -> [raised |-> FALSE, file |-> file]

-----------------------------------------------------------------------------
(* The configuration store on its own: any valid configuration is saved    *)
(* over any content of config.json, and the file is loaded.                *)

Formats == {"png", "jpeg"}

ValidCfgs ==
    {[output_format |-> StrV(f), jpeg_quality |-> IntV(q)] :
        f \in Formats, q \in MinQuality..MaxQuality}

StrToken(s) == <<"\"", s, "\"">>

FormatTokens == {StrToken("png"), StrToken("jpeg"), StrToken("bmp")}

QualityTokens ==
    {IntText(1), IntText(80), IntText(100), IntText(500), IntText(0), IntText(0 - 5),
     StrToken("high"), NullToken}

Optional(key, tokens) == {<<>>} \cup {<<(<<key, t>>)>> : t \in tokens}

ObjectFiles ==
    {ObjectFile(fm \o qm \o tm) :
        fm \in Optional("output_format", FormatTokens),
        qm \in Optional("jpeg_quality", QualityTokens),
        tm \in Optional("theme", {StrToken("dark")})}

ConfigFiles == {AbsentFile, GarbageFile, ArrayFile} \cup ObjectFiles

NoFile == 0 - 1

NoImage == [mode |-> "none", px |-> <<>>]

\* The parts of the state the configuration store does not touch.
Idle ==
    /\ screen = "none"
    /\ inState = "present"
    /\ outState = "present"
    /\ inDir = <<>>
    /\ outDir = <<>>
    /\ remaining = {}
    /\ cur = "none"
    /\ orig_size = 0
    /\ handles = {}
    /\ stats = <<>>
    /\ errors = {}
    /\ reported = FALSE
    /\ choice = "none"

InitConfig ==
    /\ pc = "cfg_idle"
    /\ raised = "none"
    /\ configFile \in ConfigFiles
    /\ cfg = default
    /\ saveArg = default
    /\ saveOutcome = "none"
    /\ readOk = TRUE
    /\ Idle
    /\ img = NoImage
    /\ result = NoImage

CfgSave(c, outcome) ==
    /\ pc = "cfg_idle"
    /\ LET r == save_config(c, configFile, outcome)
       IN  /\ configFile' = r.file
           /\ raised' = IF r.raised THEN "save_config" ELSE raised
    /\ saveArg' = c
    /\ saveOutcome' = outcome
    /\ pc' = "cfg_saved"
    /\ UNCHANGED <<cfg, readOk, dirVars, loopVars, shellVars, imgVars>>

CfgLoad(rdOk) ==
    /\ pc \in {"cfg_idle", "cfg_saved"}
    /\ LET r == load_config(configFile, rdOk)
       IN  /\ cfg' = IF r.raised THEN cfg ELSE r.value
           /\ raised' = IF r.raised THEN "load_config" ELSE raised
    /\ readOk' = rdOk
    /\ pc' = IF pc = "cfg_saved" THEN "cfg_roundtrip" ELSE "cfg_loaded"
    /\ UNCHANGED <<configFile, saveArg, saveOutcome, dirVars, loopVars, shellVars, imgVars>>

CfgReset ==
    /\ pc \in {"cfg_loaded", "cfg_roundtrip"}
    /\ raised = "none"
    /\ pc' = "cfg_idle"
    /\ cfg' = default
    /\ saveArg' = default
    /\ saveOutcome' = "none"
    /\ readOk' = TRUE
    /\ UNCHANGED <<configFile, raised, dirVars, loopVars, shellVars, imgVars>>

NextConfig ==
    \/ \E c \in ValidCfgs, outcome \in WriteOutcomes : CfgSave(c, outcome)
    \/ \E rdOk \in BOOLEAN : CfgLoad(rdOk)
    \/ CfgReset

SpecConfig == InitConfig /\ [][NextConfig]_vars

\* The member of the file that decides key k: the last one with that key.
Deciding(file, k, i) ==
    /\ i \in 1..Len(file.members)
    /\ file.members[i][1] = k
    /\ \A j \in 1..Len(file.members) : file.members[j][1] = k => j <= i

HasKey(file, k) == \E i \in 1..Len(file.members) : file.members[i][1] = k

Loaded == pc \in {"cfg_loaded", "cfg_roundtrip"}

\* C5 as stated: after save_config(c) and load_config(), the loaded
\* configuration equals c, for every valid c.
C5_RoundTrip_AsStated == pc = "cfg_roundtrip" => cfg = saveArg

\* C5 amended: after save_config(c) whose write succeeded and a load_config()
\* whose read succeeded, the loaded configuration equals c, for every valid c;
\* after a failed write the load returns the defaults or what the file held.
C5_RoundTrip ==
    pc = "cfg_roundtrip" =>
        /\ (saveOutcome = "ok" /\ readOk) => cfg = saveArg
        /\ (saveOutcome = "partial" \/ ~readOk) => cfg = default

C5_Witness ==
    /\ pc = "cfg_roundtrip"
    /\ saveOutcome = "ok"
    /\ readOk
    /\ saveArg = [output_format |-> StrV("jpeg"), jpeg_quality |-> IntV(MaxQuality)]
    /\ cfg = saveArg

\* C6: load_config never raises and returns a dict with both keys: the
\* defaults when config.json is missing, unreadable or no JSON object, and
\* otherwise, key by key, the value found in the file or else the default.
C6_LoadDefaults ==
    Loaded =>
        /\ raised = "none"
        /\ Keys \subseteq DOMAIN cfg
        /\ (configFile.kind # "object" \/ ~readOk) =>
               cfg = [output_format |-> StrV("png"), jpeg_quality |-> IntV(95)]
        /\ (configFile.kind = "object" /\ readOk) =>
               \A k \in Keys :
                   /\ HasKey(configFile, k) =>
                          \E i \in 1..Len(configFile.members) :
                              /\ Deciding(configFile, k, i)
                              /\ cfg[k] = DecodeValue(configFile.members[i][2])
                   /\ ~HasKey(configFile, k) =>
                          cfg[k] = [output_format |-> StrV("png"),
                                    jpeg_quality |-> IntV(95)][k]

C6_Witness ==
    /\ pc = "cfg_loaded"
    /\ readOk
    /\ configFile = ObjectFile(<< <<"jpeg_quality", IntText(80)>> >>)
    /\ cfg = [output_format |-> StrV("png"), jpeg_quality |-> IntV(80)]

-----------------------------------------------------------------------------
(* Images.  An image is its mode and its pixels, each pixel the tuple of   *)
(* its bands: <<r, g, b>> for RGB, <<r, g, b, a>> for RGBA, <<l, a>> for   *)
(* LA, <<l>> for L and <<index>> for P, the palette (with its              *)
(* transparency) being the table Palette.                                  *)

MaxPix == 2

ChanVals == {0, 200}
AlphaVals == {0, 128, 255}

Palette == <<(<<200, 0, 0, 255>>), (<<0, 200, 0, 0>>), (<<0, 0, 200, 128>>)>>

White == <<255, 255, 255>>

PixelsOf(mode) ==
    CASE mode = "RGB" -> {<<r, g, b>> : r \in ChanVals, g \in ChanVals, b \in ChanVals}
      [] mode = "RGBA" ->
            {<<c[1], c[2], c[3], a>> :
                c \in {<<r, g, b>> : r \in ChanVals, g \in ChanVals, b \in ChanVals},
                a \in AlphaVals}
      [] mode = "LA" -> {<<l, a>> : l \in ChanVals, a \in AlphaVals}
      [] mode = "L" -> {<<l>> : l \in ChanVals}
      [] OTHER -> {<<i>> : i \in 0..(Len(Palette) - 1)}

Modes == {"RGB", "RGBA", "LA", "L", "P"}

Images ==
    UNION {{[mode |-> m, px |-> p] : p \in [1..n -> PixelsOf(m)]} :
               m \in Modes, n \in 1..MaxPix}

\* Image.new("RGB", size, (255, 255, 255))
NewWhite(n) == [mode |-> "RGB", px |-> [i \in 1..n |-> White]]

\* img.convert(mode), for the conversions sanitize_image asks for.
Convert(im, mode) ==
    IF im.mode = "P" /\ mode = "RGBA"
    THEN [mode |-> "RGBA", px |-> [i \in 1..Len(im.px) |-> Palette[im.px[i][1] + 1]]]
    ELSE IF im.mode = "L" /\ mode = "RGB"
    THEN [mode |-> "RGB",
          px |-> [i \in 1..Len(im.px) |-> <<im.px[i][1], im.px[i][1], im.px[i][1]>>]]
    ELSE im

\* The library's rounding division by 255 of a blend.
Div255(a) == LET t == a + 128 IN ((t \div 256) + t) \div 256

Blend8(mask, under, over) == Div255(under * (255 - mask) + over * mask)

\* bg.paste(im, mask=im.split()[-1]) for an RGBA im: each band of bg is
\* blended with the band of im, weighted by im's alpha.
Paste(bg, im) ==
    [mode |-> bg.mode,
     px |-> [i \in 1..Len(bg.px) |->
                [b \in 1..3 |-> Blend8(im.px[i][4], bg.px[i][b], im.px[i][b])]]]

\* sanitize_image(img)
sanitize_image(im) ==
    IF im.mode \in {"RGBA", "LA", "P"}
    THEN LET bg == NewWhite(Len(im.px))
             im2 == IF im.mode = "P" THEN Convert(im, "RGBA") ELSE im
         IN  IF im2.mode = "RGBA" THEN Paste(bg, im2) ELSE bg
    ELSE IF im.mode # "RGB" THEN Convert(im, "RGB")
    ELSE im

InitSanitize ==
    /\ pc = "img_ready"
    /\ raised = "none"
    /\ configFile = AbsentFile
    /\ cfg = default
    /\ saveArg = default
    /\ saveOutcome = "none"
    /\ readOk = TRUE
    /\ Idle
    /\ img \in Images
    /\ result = NoImage

Sanitize ==
    /\ pc = "img_ready"
    /\ result' = sanitize_image(img)
    /\ pc' = "img_done"
    /\ UNCHANGED <<img, raised, cfgVars, dirVars, loopVars, shellVars>>

NextSanitize == Sanitize

SpecSanitize == InitSanitize /\ [][NextSanitize]_vars

\* The alpha and the colour of pixel i of an image that carries alpha, a
\* palette image being read through its palette.
AlphaAt(im, i) ==
    CASE im.mode = "RGBA" -> im.px[i][4]
      [] im.mode = "LA" -> im.px[i][2]
      [] OTHER -> Palette[im.px[i][1] + 1][4]

ColourAt(im, i) ==
    CASE im.mode = "RGBA" -> <<im.px[i][1], im.px[i][2], im.px[i][3]>>
      [] im.mode = "LA" -> <<im.px[i][1], im.px[i][1], im.px[i][1]>>
      [] OTHER -> LET e == Palette[im.px[i][1] + 1] IN <<e[1], e[2], e[3]>>

\* C3: for an image that carries alpha (RGBA, LA, or P expanded to RGBA),
\* sanitize_image returns an RGB image of the same size in which each pixel
\* of alpha 0 is pure white and each pixel of alpha 255 has its original
\* colour.
C3_Composite_AsStated ==
    (pc = "img_done" /\ img.mode \in {"RGBA", "LA", "P"}) =>
        /\ result.mode = "RGB"
        /\ Len(result.px) = Len(img.px)
        /\ \A i \in 1..Len(img.px) :
               /\ AlphaAt(img, i) = 0 => result.px[i] = White
               /\ AlphaAt(img, i) = 255 => result.px[i] = ColourAt(img, i)

\* What the code does hold to: the claim for RGBA and P images, and a solid
\* white image for every LA image.
C3_Composite_CodeHolds ==
    pc = "img_done" =>
        /\ img.mode \in {"RGBA", "P"} =>
               \A i \in 1..Len(img.px) :
                   /\ AlphaAt(img, i) = 0 => result.px[i] = White
                   /\ AlphaAt(img, i) = 255 => result.px[i] = ColourAt(img, i)
        /\ img.mode = "LA" => result = NewWhite(Len(img.px))

-----------------------------------------------------------------------------
(* The file system under the script's directory.                           *)

Names == {"a.heic", "a.heif", "b.HEIC", "notes.txt", "album.heic"}

\* Path.stem and Path.suffix of the names above, and str.lower of a suffix.
Stem(n) ==
    CASE n = "a.heic" -> "a"
      [] n = "a.heif" -> "a"
      [] n = "b.HEIC" -> "b"
      [] n = "notes.txt" -> "notes"
      [] OTHER -> "album"

Suffix(n) ==
    CASE n = "a.heic" -> ".heic"
      [] n = "a.heif" -> ".heif"
      [] n = "b.HEIC" -> ".HEIC"
      [] n = "notes.txt" -> ".txt"
      [] OTHER -> ".heic"

Lower(s) == IF s = ".HEIC" THEN ".heic" ELSE s

\* What an entry of the input directory is: "absent"; "dir", a directory;
\* or a regular file that converts ("ok"), that cannot be stat'ed ("stat"),
\* that the decoder rejects ("decode") or that the encoder or the write
\* fails on ("encode").
is_file(d, n) == d[n] \notin {"absent", "dir"}

\* The list comprehension of convert_files: the regular files of input/ with
\* the suffix .heic or .heif in any case.
Eligible(d) ==
    {n \in Names : d[n] # "absent" /\ is_file(d, n) /\ Lower(Suffix(n)) \in {".heic", ".heif"}}

\* st_size of the input files, and of what the encoders write for them.
OrigSize(n) ==
    CASE n = "a.heic" -> 50
      [] n = "a.heif" -> 30
      [] OTHER -> 40

EncodedSize(n, e) ==
    IF e = ".png"
    THEN CASE n = "a.heic" -> 90 [] n = "a.heif" -> 80 [] OTHER -> 70
    ELSE CASE n = "a.heic" -> 20 [] n = "a.heif" -> 10 [] OTHER -> 15

Exts == {".jpg", ".png"}
OutNames == {"a", "b"} \X Exts

EmptyOut == [o \in OutNames |-> NoFile]
NoEntries == [n \in Names |-> "absent"]

\* config.get(key, dflt)
Get(d, k, dflt) == IF k \in DOMAIN d THEN d[k] ELSE dflt

\* ext = ".jpg" if fmt == "jpeg" else ".png"
ExtOf(c) == IF c["output_format"] = StrV("jpeg") THEN ".jpg" ELSE ".png"

\* output_dir / (fp.stem + ext)
OutPath(fp, c) == <<Stem(fp), ExtOf(c)>>

\* Whether img.save takes the arguments: the JPEG encoder raises on a
\* quality that is no integer, the PNG call passes no quality.
EncoderAccepts(c) ==
    c["output_format"] # StrV("jpeg") \/ Get(c, "jpeg_quality", IntV(95)).t = "int"

-----------------------------------------------------------------------------
(* convert_files(config)                                                   *)

LoopPcs == {"loop", "open", "load", "save", "close"}

\* A mutant of ExceptTarget: the error leaves convert_files.
ExceptTarget_propagates == [pc |-> "crashed", raised |-> "convert_files"]

\* except Exception: the error is written out and the loop goes on.
ExceptTarget == [pc |-> "loop", raised |-> "none"]

\* A mutant of WithExit: the handle stays open.
WithExit_leak(hs, fp) == hs

\* Leaving the with block, by its end or by an exception, closes the handle.
WithExit(hs, fp) == hs \ {fp}

\* A mutant of Record: the input's size is recorded as the converted size.
Record_origsize(fp, osz, od, out) ==
    [filename |-> fp, original_size |-> osz, converted_size |-> osz]

\* The record appended for a converted file; converted_size is
\* out_path.stat().st_size.
Record(fp, osz, od, out) ==
    [filename |-> fp, original_size |-> osz, converted_size |-> od[out]]

\* An error raised for file fp inside the try of the loop.
FileError(fp) ==
    /\ errors' = errors \cup {fp}
    /\ handles' = WithExit(handles, fp)
    /\ pc' = ExceptTarget.pc
    /\ raised' = IF ExceptTarget.raised = "none" THEN raised ELSE ExceptTarget.raised

\* The two mkdir calls, the enumeration and the early return on no files.
ConvertStart ==
    /\ pc = "configured"
    /\ UNCHANGED <<cfgVars, imgVars, reported, choice, inDir, outDir, cur, orig_size, handles>>
    /\ errors' = {}
    /\ stats' = <<>>
    /\ IF inState = "blocked"
       THEN /\ pc' = "crashed"
            /\ raised' = "mkdir_input"
            /\ UNCHANGED <<inState, outState, remaining, screen>>
       ELSE IF outState = "blocked"
       THEN /\ pc' = "crashed"
            /\ raised' = "mkdir_output"
            /\ inState' = IF inState = "absent" THEN "present" ELSE inState
            /\ UNCHANGED <<outState, remaining, screen>>
       ELSE IF inState = "unreadable"
       THEN /\ pc' = "crashed"
            /\ raised' = "iterdir"
            /\ outState' = "present"
            /\ UNCHANGED <<inState, remaining, screen>>
       ELSE /\ inState' = "present"
            /\ outState' = "present"
            /\ raised' = raised
            /\ IF Eligible(inDir) = {}
               THEN /\ screen' = "nofiles"
                    /\ remaining' = {}
                    /\ pc' = "converted"
               ELSE /\ screen' = "found"
                    /\ remaining' = Eligible(inDir)
                    /\ pc' = "loop"

\* for fp in pbar, in the order the directory gives; orig_size = fp.stat().st_size
TakeFile(fp) ==
    /\ pc = "loop"
    /\ fp \in remaining
    /\ remaining' = remaining \ {fp}
    /\ cur' = fp
    /\ IF inDir[fp] = "stat"
       THEN FileError(fp) /\ UNCHANGED orig_size
       ELSE /\ orig_size' = OrigSize(fp)
            /\ pc' = "open"
            /\ UNCHANGED <<errors, handles, raised>>
    /\ UNCHANGED <<cfgVars, dirVars, imgVars, shellVars, stats>>

\* with Image.open(fp) as img: a file the decoder rejects fails here or at
\* the load.
OpenImage(fails) ==
    /\ pc = "open"
    /\ IF fails
       THEN inDir[cur] = "decode" /\ FileError(cur)
       ELSE /\ handles' = handles \cup {cur}
            /\ pc' = "load"
            /\ UNCHANGED <<errors, raised>>
    /\ UNCHANGED <<cfgVars, dirVars, imgVars, shellVars, remaining, cur, orig_size, stats>>

\* img.load()
LoadImage ==
    /\ pc = "load"
    /\ IF inDir[cur] = "decode"
       THEN FileError(cur)
       ELSE pc' = "save" /\ UNCHANGED <<errors, handles, raised>>
    /\ UNCHANGED <<cfgVars, dirVars, imgVars, shellVars, remaining, cur, orig_size, stats>>

\* img = sanitize_image(img); img.save(out_path, ...).  A failing save has
\* not touched the output file, or leaves it cut short.
SaveImage(partial) ==
    /\ pc = "save"
    /\ LET out == OutPath(cur, cfg)
       IN  IF inDir[cur] = "encode" \/ ~EncoderAccepts(cfg)
           THEN /\ outDir' = IF partial THEN [outDir EXCEPT ![out] = 0] ELSE outDir
                /\ FileError(cur)
           ELSE /\ ~partial
                /\ outDir' = [outDir EXCEPT ![out] = EncodedSize(cur, ExtOf(cfg))]
                /\ pc' = "close"
                /\ UNCHANGED <<errors, handles, raised>>
    /\ UNCHANGED <<cfgVars, inState, outState, inDir, imgVars, shellVars, remaining,
                   cur, orig_size, stats>>

\* The end of the with block and stats.append.
CloseImage ==
    /\ pc = "close"
    /\ handles' = WithExit(handles, cur)
    /\ stats' = Append(stats, Record(cur, orig_size, outDir, OutPath(cur, cfg)))
    /\ pc' = "loop"
    /\ UNCHANGED <<cfgVars, dirVars, imgVars, shellVars, remaining, cur, orig_size,
                   errors, raised>>

\* return stats
LoopEnd ==
    /\ pc = "loop"
    /\ remaining = {}
    /\ pc' = "converted"
    /\ UNCHANGED <<raised, cfgVars, dirVars, imgVars, shellVars, loopVars>>

ConvertFiles ==
    \/ ConvertStart
    \/ \E fp \in Names : TakeFile(fp)
    \/ \E fails \in BOOLEAN : OpenImage(fails)
    \/ LoadImage
    \/ \E partial \in BOOLEAN : SaveImage(partial)
    \/ CloseImage
    \/ LoopEnd

\* The input directories tried: every mix of the three images, beside a
\* text file and a directory whose name ends in .heic.
InputDirs ==
    {d \in [Names -> {"absent", "ok", "stat", "decode", "encode", "dir"}] :
        /\ d["a.heic"] \in {"absent", "ok", "decode", "encode"}
        /\ d["a.heif"] \in {"absent", "ok", "encode", "stat"}
        /\ d["b.HEIC"] \in {"absent", "ok", "decode"}
        /\ d["notes.txt"] = "ok"
        /\ d["album.heic"] = "dir"}

\* An output directory that holds a.png from an earlier run.
StaleOut == [EmptyOut EXCEPT ![<<"a", ".png">>] = 60]

\* Configurations choose_format can hand to convert_files.
ConvertCfgs ==
    {[output_format |-> StrV("png"), jpeg_quality |-> IntV(95)],
     [output_format |-> StrV("jpeg"), jpeg_quality |-> IntV(80)],
     [output_format |-> StrV("jpeg"), jpeg_quality |-> IntV(500)],
     [output_format |-> StrV("jpeg"), jpeg_quality |-> StrV("high")]}

LoopIdle ==
    /\ remaining = {}
    /\ cur = "none"
    /\ orig_size = 0
    /\ handles = {}
    /\ stats = <<>>
    /\ errors = {}

InitConvert ==
    /\ pc = "configured"
    /\ raised = "none"
    /\ configFile = AbsentFile
    /\ cfg \in ConvertCfgs
    /\ saveArg = cfg
    /\ saveOutcome = "denied"
    /\ readOk = TRUE
    /\ screen = "menu"
    /\ reported = FALSE
    /\ choice = IF cfg["output_format"] = StrV("jpeg") THEN "1" ELSE "2"
    /\ inState \in {"present", "absent", "blocked", "unreadable"}
    /\ outState \in {"present", "absent", "blocked"}
    /\ inDir \in IF inState \in {"present", "unreadable"} THEN InputDirs ELSE {NoEntries}
    /\ outDir \in IF outState = "present" THEN {EmptyOut, StaleOut} ELSE {EmptyOut}
    /\ LoopIdle
    /\ img = NoImage
    /\ result = NoImage

NextConvert == ConvertFiles

SpecConvert == InitConvert /\ [][NextConvert]_vars

\* The records of stats that carry the name of file f.
RecordsOf(f) == {i \in 1..Len(stats) : stats[i].filename = f}

\* A file of the batch is valid when it can be stat'ed, decoded, encoded
\* and written; every other eligible file fails.
ValidFile(f) == inDir[f] = "ok" /\ EncoderAccepts(cfg)

\* C1: for a batch of eligible files of which some fail, convert_files
\* raises nothing out of its loop and goes on after each failure: when it
\* returns, every valid file has its output file and exactly one record, and
\* every failed file has an error line and no record.
C1_PartialFailure ==
    /\ (pc \in LoopPcs \cup {"converted"}) => raised = "none"
    /\ pc = "crashed" => raised \in {"mkdir_input", "mkdir_output", "iterdir"}
    /\ pc = "converted" =>
           \A f \in Eligible(inDir) :
               /\ ValidFile(f) =>
                      /\ outDir[OutPath(f, cfg)] # NoFile
                      /\ Cardinality(RecordsOf(f)) = 1
                      /\ f \notin errors
               /\ ~ValidFile(f) =>
                      /\ RecordsOf(f) = {}
                      /\ f \in errors

C1_Witness ==
    /\ pc = "converted"
    /\ inDir["a.heic"] = "decode"
    /\ inDir["a.heif"] = "encode"
    /\ inDir["b.HEIC"] = "ok"
    /\ errors = {"a.heic", "a.heif"}
    /\ Len(stats) = 1
    /\ stats[1].filename = "b.HEIC"
    /\ outDir[<<"b", ".jpg">>] = EncodedSize("b.HEIC", ".jpg")

\* Record i of stats matches the output directory: its file, the input's
\* base name plus the extension of the format, is there and has the
\* recorded size.
RecordMatches(i) ==
    LET out == OutPath(stats[i].filename, cfg)
    IN  /\ outDir[out] # NoFile
        /\ stats[i].converted_size = outDir[out]

\* C8 as stated: when convert_files returns, every record matches the output
\* directory.
C8_RecordSizes_AsStated ==
    pc = "converted" => \A i \in 1..Len(stats) : RecordMatches(i)

\* C8 amended: when convert_files returns, every record of a file that
\* shares its base name with no other eligible file matches the output
\* directory; every record held the on-disk size at the time it was made.
C8_RecordSizes ==
    /\ pc = "converted" =>
           \A i \in 1..Len(stats) :
               (\A g \in Eligible(inDir) :
                    Stem(g) = Stem(stats[i].filename) => g = stats[i].filename)
                   => RecordMatches(i)
    /\ (pc = "loop" /\ Len(stats) > 0 /\ cur = stats[Len(stats)].filename) =>
           RecordMatches(Len(stats))
    /\ \A i \in 1..Len(stats) :
           /\ stats[i].original_size = OrigSize(stats[i].filename)
           /\ stats[i].converted_size = EncodedSize(stats[i].filename, ExtOf(cfg))

C8_Witness ==
    /\ pc = "converted"
    /\ Len(stats) = 3
    /\ \E i \in 1..3 : stats[i].filename = "b.HEIC" /\ RecordMatches(i)
    /\ \E i \in 1..3 : stats[i].filename = "a.heic" /\ ~RecordMatches(i)

\* C9: at most one image handle is open at any time, it is the handle of the
\* file the loop is at, and none is open when the loop takes the next file
\* or convert_files returns, after a success and after an error alike.
C9_HandleClosed ==
    /\ Cardinality(handles) <= 1
    /\ handles \subseteq {cur}
    /\ pc \in {"configured", "loop", "open", "converted", "crashed"} => handles = {}
    /\ pc \in {"load", "save", "close"} => handles = {cur}

C9_Witness ==
    /\ pc = "load"
    /\ handles = {cur}
    /\ Len(stats) = 1
    /\ \E f \in errors : inDir[f] = "encode"

-----------------------------------------------------------------------------
(* choose_format() and main()                                              *)

\* What is typed at the format prompt, and .strip().lower() of it.
RawChoices == {"1", "2", " 2 ", "q", "Q", "x", ""}

StripLower(raw) ==
    CASE raw = " 2 " -> "2"
      [] raw = "Q" -> "q"
      [] OTHER -> raw

\* What is typed at the quality prompt, as characters.
QInputs ==
    {<<>>, <<"a", "b", "c">>, <<"0">>, <<"1", "0", "1">>, <<"-", "5">>, <<" ", "8", "0", " ">>}

RECURSIVE LStrip(_)
LStrip(t) == IF Len(t) > 0 /\ t[1] = " " THEN LStrip(Tail(t)) ELSE t

RECURSIVE RStrip(_)
RStrip(t) ==
    IF Len(t) > 0 /\ t[Len(t)] = " " THEN RStrip(SubSeq(t, 1, Len(t) - 1)) ELSE t

Strip(t) == RStrip(LStrip(t))

\* max(1, min(100, q))
Clamp(q) ==
    LET m == IF q < MaxQuality THEN q ELSE MaxQuality
    IN  IF m > MinQuality THEN m ELSE MinQuality

\* The try block of the JPEG branch.  q_input is the stripped input; an
\* empty input takes the previous value; int() of a text that is no number
\* and min() of a value that is no number raise, and the except leaves the
\* previous value as it is.
Quality(c, q_input) ==
    LET prev == c["jpeg_quality"]
    IN  IF q_input = <<>>
        THEN IF prev.t = "int" THEN IntV(Clamp(prev.n)) ELSE prev
        ELSE LET r == PyInt(q_input)
             IN  IF r.raised THEN prev ELSE IntV(Clamp(r.value))

\* A mutant of ChooseBody: any other input is taken as PNG.
ChooseBody_lenient(c, ch, q_raw) ==
    CASE ch = "q" -> [ret |-> "none", cfg |-> c]
      [] ch = "1" ->
            [ret |-> "cfg",
             cfg |-> Merge(c, [output_format |-> StrV("jpeg"),
                               jpeg_quality |-> Quality(c, Strip(q_raw))])]
      [] OTHER -> [ret |-> "cfg", cfg |-> [c EXCEPT !["output_format"] = StrV("png")]]

\* One turn of the while loop of choose_format on the choice ch: return
\* None, leave the loop with the updated dict, or prompt again.
ChooseBody(c, ch, q_raw) ==
    CASE ch = "q" -> [ret |-> "none", cfg |-> c]
      [] ch = "1" ->
            [ret |-> "cfg",
             cfg |-> Merge(c, [output_format |-> StrV("jpeg"),
                               jpeg_quality |-> Quality(c, Strip(q_raw))])]
      [] ch = "2" -> [ret |-> "cfg", cfg |-> [c EXCEPT !["output_format"] = StrV("png")]]
      [] OTHER -> [ret |-> "again", cfg |-> c]

\* A mutant of ShouldReport: the summary is printed for an empty list too.
ShouldReport_always(st) == TRUE

\* if stats:
ShouldReport(st) == Len(st) > 0

\* print_header() and cfg = load_config() at the top of choose_format.
EnterChooseFormat(rdOk) ==
    /\ pc = "header"
    /\ configFile.kind = "absent" => rdOk
    /\ LET r == load_config(configFile, rdOk)
       IN  IF r.raised
           THEN pc' = "crashed" /\ raised' = "load_config" /\ cfg' = cfg
           ELSE pc' = "prompt" /\ raised' = raised /\ cfg' = r.value
    /\ readOk' = rdOk
    /\ saveOutcome' = "none"
    /\ screen' = "menu"
    /\ reported' = FALSE
    /\ choice' = "none"
    /\ UNCHANGED <<configFile, saveArg, dirVars, loopVars, imgVars>>

\* An input that is none of 1, 2 and q.
PromptAgain(raw) ==
    /\ pc = "prompt"
    /\ ChooseBody(cfg, StripLower(raw), <<>>).ret = "again"
    /\ choice' = StripLower(raw)
    /\ cfg' = ChooseBody(cfg, StripLower(raw), <<>>).cfg
    /\ screen' = "invalid"
    /\ UNCHANGED <<pc, raised, configFile, saveArg, saveOutcome, readOk, dirVars,
                   loopVars, imgVars, reported>>

\* q: choose_format returns None and main breaks out of its loop.
PromptQuit(raw) ==
    /\ pc = "prompt"
    /\ ChooseBody(cfg, StripLower(raw), <<>>).ret = "none"
    /\ choice' = StripLower(raw)
    /\ cfg' = ChooseBody(cfg, StripLower(raw), <<>>).cfg
    /\ screen' = "exiting"
    /\ pc' = "terminated"
    /\ UNCHANGED <<raised, configFile, saveArg, saveOutcome, readOk, dirVars,
                   loopVars, imgVars, reported>>

\* 1 (and the quality typed next) or 2: the dict is updated, saved and
\* returned.
PromptSelect(raw, q_raw, outcome) ==
    /\ pc = "prompt"
    /\ LET b == ChooseBody(cfg, StripLower(raw), q_raw)
           w == save_config(b.cfg, configFile, outcome)
       IN  /\ b.ret = "cfg"
           /\ cfg' = b.cfg
           /\ saveArg' = b.cfg
           /\ configFile' = w.file
           /\ IF w.raised
              THEN pc' = "crashed" /\ raised' = "save_config"
              ELSE pc' = "configured" /\ raised' = raised
    /\ choice' = StripLower(raw)
    /\ saveOutcome' = outcome
    /\ UNCHANGED <<readOk, dirVars, loopVars, imgVars, screen, reported>>

\* if stats: print_summary(...), then the "Ready for next conversion" line.
Report ==
    /\ pc = "converted"
    /\ reported' = ShouldReport(stats)
    /\ screen' = IF ShouldReport(stats) THEN "summary" ELSE screen
    /\ pc' = "ready"
    /\ UNCHANGED <<raised, cfgVars, dirVars, loopVars, imgVars, choice>>

\* Enter at "Press Enter to restart...": the while loop of main starts over.
Restart ==
    /\ pc = "ready"
    /\ pc' = "header"
    /\ screen' = "header"
    /\ UNCHANGED <<raised, cfgVars, dirVars, loopVars, imgVars, reported, choice>>

RunningPcs == {"header", "prompt", "configured", "converted", "ready"} \cup LoopPcs

\* KeyboardInterrupt: it passes every except Exception, closes the image of
\* the with block it passes, and ends the process.
Interrupt ==
    /\ pc \in RunningPcs
    /\ pc' = "interrupted"
    /\ screen' = "interrupted"
    /\ handles' = {}
    /\ UNCHANGED <<raised, cfgVars, dirVars, imgVars, reported, choice, remaining, cur,
                   orig_size, stats, errors>>

\* The file systems the shell is started on: up to two images beside the
\* text file and the directory, and what config.json may hold.
ShellDirs == {d \in InputDirs : d["a.heif"] = "absent" /\ d["b.HEIC"] \in {"absent", "ok"}}

ShellConfigFiles ==
    {AbsentFile, GarbageFile,
     ObjectFile(<< <<"jpeg_quality", IntText(500)>> >>),
     ObjectFile(<< <<"jpeg_quality", StrToken("high")>> >>),
     ObjectFile(<< <<"output_format", StrToken("jpeg")>>, <<"jpeg_quality", IntText(80)>> >>)}

Init ==
    /\ pc = "header"
    /\ raised = "none"
    /\ configFile \in ShellConfigFiles
    /\ cfg = default
    /\ saveArg = default
    /\ saveOutcome = "none"
    /\ readOk = TRUE
    /\ screen = "header"
    /\ reported = FALSE
    /\ choice = "none"
    /\ inState \in {"present", "absent", "blocked", "unreadable"}
    /\ outState \in {"present", "absent", "blocked"}
    /\ inDir \in IF inState \in {"present", "unreadable"} THEN ShellDirs ELSE {NoEntries}
    /\ outDir = EmptyOut
    /\ LoopIdle
    /\ img = NoImage
    /\ result = NoImage

Next ==
    \/ \E rdOk \in BOOLEAN : EnterChooseFormat(rdOk)
    \/ \E raw \in RawChoices : PromptAgain(raw)
    \/ \E raw \in RawChoices : PromptQuit(raw)
    \/ \E raw \in RawChoices, q_raw \in QInputs, outcome \in WriteOutcomes :
           PromptSelect(raw, q_raw, outcome)
    \/ ConvertFiles
    \/ Report
    \/ Restart
    \/ Interrupt

Spec == Init /\ [][Next]_vars

\* C2 as stated: every configuration choose_format returns and saves has
\* jpeg_quality an integer in 1..100, whatever was typed and whatever
\* config.json held.
C2_QualityRange_AsStated ==
    pc = "configured" =>
        /\ cfg["jpeg_quality"].t = "int"
        /\ cfg["jpeg_quality"].n \in 1..100

\* C4 as stated: no error ends the process; the shell leaves its loop only
\* on quit or on an interrupt.
C4_NoFatalError_AsStated == pc # "crashed"

\* C4 amended: config.json read, parse and write errors and per-file
\* conversion errors never end the process; the shell leaves its loop only
\* on quit, on an interrupt, or on the exception of a directory that cannot
\* be created or enumerated, which nothing in convert_files or main catches.
C4_NoFatalError ==
    /\ (pc = "crashed") = (raised # "none")
    /\ raised \in {"none", "mkdir_input", "mkdir_output", "iterdir"}
    /\ raised = "mkdir_input" => inState = "blocked"
    /\ raised = "mkdir_output" => outState = "blocked"
    /\ raised = "iterdir" => inState = "unreadable"
    /\ (inState \in {"present", "absent"} /\ outState \in {"present", "absent"}) =>
           pc # "crashed"

C4_Witness ==
    /\ pc = "ready"
    /\ errors # {}
    /\ saveOutcome = "denied"
    /\ ~readOk
    /\ configFile = GarbageFile

\* C7: every round goes Prompt -> Configured -> (Reported) -> Prompt: the
\* converter starts only after a choice of 1 or 2 whose configuration was
\* handed to save_config, the summary is printed exactly when the converter
\* returned a record, the round then goes back to the prompt, and the shell
\* terminates only from the prompt on q.
C7_Step ==
    /\ (pc' = "configured" /\ pc # "configured") =>
           /\ pc = "prompt"
           /\ choice' \in {"1", "2"}
           /\ saveArg' = cfg'
           /\ saveOutcome' \in WriteOutcomes
           /\ saveOutcome' = "ok" => configFile' = ObjectFile(json_dumps(cfg'))
    /\ pc = "header" => pc' \in {"prompt", "interrupted"}
    /\ pc = "prompt" => pc' \in {"prompt", "configured", "terminated", "interrupted"}
    /\ pc = "configured" => pc' \in {"loop", "converted", "crashed", "interrupted"}
    /\ pc \in LoopPcs => pc' \in LoopPcs \cup {"converted", "interrupted"}
    /\ pc = "converted" =>
           /\ pc' \in {"ready", "interrupted"}
           /\ pc' = "ready" => (reported' = (Len(stats) > 0) /\ stats' = stats)
    /\ pc = "ready" => pc' \in {"header", "interrupted"}
    /\ pc' = "terminated" => (pc = "prompt" /\ choice' = "q")
    /\ pc \notin {"terminated", "interrupted", "crashed"}

C10_Step ==
    /\ configFile' # configFile =>
           /\ pc = "prompt"
           /\ pc' = "configured"
           /\ choice' \in {"1", "2"}
           /\ configFile' \in {ObjectFile(json_dumps(cfg')), GarbageFile}
    /\ (pc = "prompt" /\ pc' = "prompt") =>
           /\ choice' \notin {"1", "2", "q"}
           /\ UNCHANGED <<configFile, cfg, outDir, outState>>
    /\ (pc = "prompt" /\ pc' = "terminated") =>
           /\ choice' = "q"
           /\ UNCHANGED <<configFile, cfg, outDir, outState>>
    /\ (pc = "prompt" /\ choice' \notin {"1", "2"}) => pc' # "configured"

\* C10: every step of the shell leaves config.json to save_config as above.
C10_OnlyWriter == [][C10_Step]_vars

C10_Witness ==
    /\ pc = "prompt"
    /\ screen = "invalid"
    /\ choice = "x"
    /\ saveArg # default
    /\ cfg = saveArg
    /\ configFile = ObjectFile(json_dumps(saveArg))
    /\ outDir # EmptyOut

=============================================================================
